---------------------------- MODULE Spec2Model ----------------------------
(***************************************************************************)
(* HorizonOps dashboard: the pages App routes to.  One page is mounted at   *)
(* a time (route); the state of each page is that of its useState cells.   *)
(*                                                                         *)
(* KernelLogs, LiveTelemetry, FleetNetwork and Parameters have their own   *)
(* variables and their own specifications (SpecLogs, SpecLive, SpecFleet,  *)
(* SpecParams); SpecMount adds route changes.                              *)
(*                                                                         *)
(* CommandConsole is a React function component.  Its state is the five    *)
(* useState cells (telemetry, logs, isAiAnalyzing, aiInsight,              *)
(* systemStatus).  Three                                                   *)
(* things read that state through a closure rather than directly:          *)
(*   - the interval callback installed by the effect, which sees the       *)
(*     systemStatus of the render whose effect installed it (effectStatus),*)
(*   - the click handlers and the disabled attribute of the committed      *)
(*     render (view),                                                      *)
(*   - every runAiAnalysis call that is suspended at an await (calls).     *)
(* Updates made from a timer or a promise continuation are rendered later  *)
(* (Commit) and their passive effects later still (FlushEffects); updates  *)
(* made from a click are rendered, and their effects run, before the next  *)
(* event (React 19, part_004:531).                                         *)
(*                                                                         *)
(* Numbers: Math.random() is a draw in hundredths (0..99 for [0,1));       *)
(* vibration, temp and power are in hundredths of their unit, so           *)
(* toFixed(1) is a real rounding to tenths.                                *)
(***************************************************************************)
EXTENDS Integers, Sequences, FiniteSets, TLC

VARIABLES
    telemetry,      \* useState<TelemetryPoint[]>: the rolling buffer
    logs,           \* useState<LogEntry[]>: newest first
    isAiAnalyzing,  \* useState(false)
    aiInsight,      \* useState<string | null>(null): a token sequence, <<>> for null
    systemStatus,   \* useState('nominal')
    effectStatus,   \* systemStatus as captured by the active interval callback
    view,           \* what the committed render closed over / put in the DOM
    calls,          \* runAiAnalysis invocations suspended at an await
    settled,        \* how the latest runAiAnalysis invocation ended: was the service
                    \* reached, and the data it returned
    unhandled,      \* a rejection escaped runAiAnalysis
    now,            \* the clock, one unit per 3000 ms interval period
    nextCall,       \* number of runAiAnalysis invocations so far
    route,          \* the page App has mounted
    intervals,      \* the intervals set and not cleared, in the order they were set
    kLogs,          \* KernelLogs: useState<LogEntry[]>(MOCK_LOGS), newest first
    kFilter,        \* KernelLogs: useState<string>('all')
    kNow,           \* KernelLogs: seconds since the page was mounted
    selectedMachine,\* LiveTelemetry: useState(MACHINES[0])
    telemetryData,  \* LiveTelemetry: useState<TelemetryReading[]>([])
    latestReading,  \* LiveTelemetry: useState<TelemetryReading | null>(null)
    isLoading,      \* LiveTelemetry: useState(true)
    lRequests,      \* LiveTelemetry: fetchTelemetry / fetchLatest calls at an await
    lNext,          \* LiveTelemetry: number of requests issued so far
    machines,       \* FleetNetwork: useState<MachineStatus[]>([])
    summary,        \* FleetNetwork: useState<FleetSummary | null>(null)
    fSelected,      \* FleetNetwork: useState<string | null>(null), the selectedMachine
    fLoading,       \* FleetNetwork: useState(true), the isLoading
    fRequests,      \* FleetNetwork: fetchFleetHealth calls at an await
    fNext,          \* FleetNetwork: number of requests issued so far
    fShown,         \* FleetNetwork: the request whose response set machines and summary
    sections,       \* Parameters: useState(PARAMETER_SECTIONS); while the page is not
                    \* mounted, what it held when it was unmounted
    hasChanges,     \* Parameters: useState(false)
    activeSection   \* Parameters: useState('alerts')

consoleVars == <<telemetry, logs, isAiAnalyzing, aiInsight, systemStatus, effectStatus,
                 view, calls, settled, unhandled, now, nextCall>>

kernelVars == <<kLogs, kFilter, kNow>>

liveVars == <<selectedMachine, telemetryData, latestReading, isLoading, lRequests, lNext>>

fleetVars == <<machines, summary, fSelected, fLoading, fRequests, fNext, fShown>>

paramVars == <<sections, hasChanges, activeSection>>

vars == <<consoleVars, route, intervals, kernelVars, liveVars, fleetVars, paramVars>>

-----------------------------------------------------------------------------
(* Bounds of the model *)

MaxTicks == 3

MaxCalls == 2

\* ticks of the CommandConsole in the long runs that fill its log
MaxLongTicks == 17

\* ticks of KernelLogs, and how many of them draw their fields freely
MaxKernelTicks == 92

MaxVariedTicks == 2

\* requests of LiveTelemetry in a run, the history request of the mount included
MaxRequests == 4

\* fetchFleetHealth calls of FleetNetwork in a run, the one of the mount included
MaxFleetRequests == 3

(* Program constants *)

BufCap == 40

LogCap == 15

KLogCap == 100

(* The draws of Math.random() the model explores, in hundredths. *)
AnomalyDraws == {50, 99}

VibrationDraws == {20, 29}

TempDraws == {99}

PowerDraws == {50}

InitDraws == {50}

LogIds == {"k3j9x2m1q"}

UNDEF == "undefined"

NULL == <<>>

-----------------------------------------------------------------------------
(* The reading generator *)

\* Array.from({length: 40}, (_, i) => ({time: `${i}:00`, ...})): the label of
\* initial point i is modelled by i.
InitPoint(i, rv, rt, rp) ==
    [time |-> i, vibration |-> 1800 + 4 * rv, temp |-> 4200 + 2 * rt, power |-> 1100 + rp]

InitTelemetry(rv, rt, rp) == [i \in 1..BufCap |-> InitPoint(i - 1, rv, rt, rp)]

\* const isAnomaly = Math.random() > 0.98
IsAnomaly(ra) == ra > 98

\* newPoint of the setTelemetry updater
NewPoint(last, t, isAnomaly, rv, rt, rp) ==
    [time |-> t,
     vibration |-> IF isAnomaly THEN 5500 + 25 * rv ELSE 2000 + 4 * rv,
     temp |-> last.temp + (rt - 45),
     power |-> 1200 + rp \div 2]

SlideKeepAll(prev, p) == prev \o <<p>>

\* return [...prev.slice(1), newPoint]
Slide(prev, p) == Tail(prev) \o <<p>>

EscalatesOnAnyReading(isAnomaly, closureStatus) == closureStatus = "nominal"

\* if (isAnomaly && systemStatus === 'nominal'), systemStatus being the closure's
Escalates(isAnomaly, closureStatus) == isAnomaly /\ closureStatus = "nominal"

TickStatusCriticalOnRepeat(isAnomaly, closureStatus, status) ==
    IF Escalates(isAnomaly, closureStatus) THEN "degraded"
    ELSE IF isAnomaly /\ status = "degraded" THEN "critical" ELSE status

TickStatusAutoRecover(isAnomaly, closureStatus, status) ==
    IF Escalates(isAnomaly, closureStatus) THEN "degraded"
    ELSE IF isAnomaly THEN status ELSE "nominal"

\* setSystemStatus('degraded') inside the if, nothing otherwise
TickStatus(isAnomaly, closureStatus, status) ==
    IF Escalates(isAnomaly, closureStatus) THEN "degraded" ELSE status

LoggedPointIsLast(prev, newPoint) == prev[Len(prev)]

\* The point whose vibration the log message interpolates: newPoint
LoggedPoint(prev, newPoint) == newPoint

\* Number.prototype.toFixed(1) of a value in hundredths: the value in tenths
ToFixed1(v) == (v + 5) \div 10

\* `Anomaly: Spindle vibration threshold exceeded (${newPoint.vibration.toFixed(1)}Hz)`
AnomalyMessage(p) ==
    [text |-> "Anomaly: Spindle vibration threshold exceeded (%Hz)",
     value |-> ToFixed1(p.vibration)]

-----------------------------------------------------------------------------
(* The log recorder *)

Min(a, b) == IF a < b THEN a ELSE b

NewEntry(id, ts, type, message) ==
    [id |-> id, timestamp |-> ts, message |-> message, type |-> type]

\* setLogs((prev) => [newEntry, ...prev].slice(0, 15))
AddLogUncapped(prev, entry) == <<entry>> \o prev

\* setLogs(prev => [newEntry, ...prev].slice(0, 15))
AddLog(prev, entry) == SubSeq(<<entry>> \o prev, 1, Min(LogCap, Len(prev) + 1))

-----------------------------------------------------------------------------
(* The prediction request adapter *)

MACHINE_ID == "CNC-ALPHA-921"

Fallback == <<"AI Uplink Failed. Switching to manual override.">>

\* body: JSON.stringify({machine_id, features: {...}}), built from the telemetry
\* and systemStatus the handler's render closed over
RequestBody(latest, status) ==
    [machine_id |-> MACHINE_ID,
     vibration_rms |-> latest.vibration,
     vibration_peak |-> (latest.vibration * 16) \div 10,
     vibration_kurtosis |-> IF status = "degraded" THEN 520 ELSE 320,
     temperature |-> latest.temp,
     temp_rate_of_change |-> 10,
     power_consumption |-> latest.power,
     power_deviation |-> ((latest.power - 1200) * 100) \div 12,
     time_since_maintenance |-> 280,
     cumulative_cycles |-> 125000]

\* What response.json() can yield: a PredictionResult or an error envelope
\* (API specification, Error Responses).  A field the JSON lacks reads as UNDEF.
Data(kind, level, score, nl, action, code, message) ==
    [kind |-> kind, risk_level |-> level, risk_score |-> score,
     natural_language |-> nl, recommended_action |-> action,
     code |-> code, message |-> message]

NoData == Data("none", UNDEF, UNDEF, UNDEF, UNDEF, UNDEF, UNDEF)

PredictionResults ==
    { Data("result", "high", "87.3", "Bearing wear pattern detected",
           "Schedule maintenance within 48h", UNDEF, UNDEF),
      Data("result", "low", "12.0", UNDEF, "Continue normal operation", UNDEF, UNDEF) }

ErrorEnvelopes ==
    { Data("error", UNDEF, UNDEF, UNDEF, UNDEF,
           "INVALID_FEATURE", "vibration_rms must be positive") }

\* An HTTP response: a JSON body, or a body response.json() rejects
Responses ==
    { [isJson |-> TRUE, data |-> d] : d \in PredictionResults \cup ErrorEnvelopes }
    \cup { [isJson |-> FALSE, data |-> NoData] }

NoResponse == [isJson |-> FALSE, data |-> NoData]

\* No runAiAnalysis invocation has finished since the last one started
NotSettled == [done |-> FALSE, reached |-> FALSE, data |-> NoData]

\* String.prototype.toUpperCase on the risk levels of the API
ToUpperCase(s) ==
    CASE s = "low" -> "LOW"
      [] s = "medium" -> "MEDIUM"
      [] s = "high" -> "HIGH"
      [] s = "critical" -> "CRITICAL"
      [] OTHER -> s

\* data.risk_level.toUpperCase() throws a TypeError when risk_level is undefined
InsightThrows(data) == data.risk_level = UNDEF

\* `Risk Level: ${data.risk_level.toUpperCase()} (${data.risk_score}%). ${
\*    data.explanation?.natural_language || data.recommended_action}`
InsightOf(data) ==
    <<"Risk Level: ", ToUpperCase(data.risk_level), " (", data.risk_score, "%). ",
      IF data.natural_language # UNDEF THEN data.natural_language
                                        ELSE data.recommended_action>>

SettleWithoutCatch(failed, insight) ==
    IF failed THEN [aiInsight |-> NULL, unhandled |-> TRUE]
              ELSE [aiInsight |-> insight, unhandled |-> FALSE]

\* try { ... setAiInsight(insight) } catch (error) { setAiInsight('AI Uplink Failed...') }
\* as a function of whether the try block threw: the insight set, and whether the
\* rejection leaves runAiAnalysis
Settle(failed, insight) ==
    IF failed THEN [aiInsight |-> Fallback, unhandled |-> FALSE]
              ELSE [aiInsight |-> insight, unhandled |-> FALSE]

-----------------------------------------------------------------------------
(* The committed render *)

Snapshot(tel, status, analyzing) ==
    [latest |-> tel[Len(tel)], systemStatus |-> status, isAiAnalyzing |-> analyzing]

\* The render a click causes is synchronous and takes up the updates of that
\* click only.
SyncRender(v, status, analyzing) ==
    [v EXCEPT !.systemStatus = status, !.isAiAnalyzing = analyzing]

-----------------------------------------------------------------------------
(* Intervals: const interval = setInterval(cb, ms); return () => clearInterval(interval) *)

\* An interval of a page and what its callback closed over
Interval(v, c) == [view |-> v, closure |-> c]

Active(h) == \E i \in 1..Len(intervals) : intervals[i] = h

Max(S) == CHOOSE x \in S : \A y \in S : y <= x

SetInterval(ivs, h) == Append(ivs, h)

ClearIntervalNever(ivs, v) == ivs

\* The cleanup of the effect of page v: clearInterval of the interval that
\* effect run set, the last one set by v
ClearInterval(ivs, v) ==
    LET mine == {i \in 1..Len(ivs) : ivs[i].view = v}
    IN  IF mine = {} THEN ivs
        ELSE SubSeq(ivs, 1, Max(mine) - 1) \o SubSeq(ivs, Max(mine) + 1, Len(ivs))

\* The effect of page v after a render in which its dependency is c: nothing
\* if the interval it set last closed over c, else cleanup and a new interval
Resubscribe(ivs, v, c) ==
    IF \E i \in 1..Len(ivs) : ivs[i] = Interval(v, c) /\ \A j \in i+1..Len(ivs) : ivs[j].view # v
       THEN ivs
       ELSE SetInterval(ClearInterval(ivs, v), Interval(v, c))

-----------------------------------------------------------------------------
(* KernelLogs (pages/KernelLogs.tsx) *)

Levels == <<"debug", "info", "info", "info", "warning", "error">>

Sources == <<"SYSTEM", "ML-ENGINE", "SENSOR-GW", "API", "DATABASE", "SCHEDULER",
             "AUTH", "CACHE">>

Messages == <<"Heartbeat check completed",
              "Feature vector computed for CNC-ALPHA-921",
              "WebSocket connection established",
              "Batch prediction completed for 8 machines",
              "Cache invalidation triggered",
              "Metric export to Prometheus successful">>

\* arr[Math.floor(Math.random() * arr.length)], the draw r in hundredths
Pick(arr, r) == arr[(r * Len(arr)) \div 100 + 1]

\* The draws of Math.random() explored for level, source and message
KLevelDraws == {0, 99}

KSourceDraws == {30}

KMessageDraws == {70}

\* Date.now() at kNow, in seconds
DateNow(t) == 1700000000 + t

KEntry(id, ts, level, source, message) ==
    [id |-> id, timestamp |-> ts, level |-> level, source |-> source, message |-> message]

\* MOCK_LOGS: ids '1'..'10', each 5000 ms older than the one before
MockLevels == <<"info", "debug", "warning", "info", "error", "info", "critical",
                "info", "debug", "warning">>

MockSources == <<"SYSTEM", "ML-ENGINE", "SENSOR-GW", "API", "DATABASE", "SCHEDULER",
                 "ALERT", "AUTH", "CACHE", "RESOURCE">>

MockMessages == <<"Telemetry ingestion pipeline healthy",
                  "Model inference completed in 45ms",
                  "CNC-ALPHA-921: Sensor reading delay detected (>100ms)",
                  "Health check passed for all endpoints",
                  "Connection pool exhausted, scaling up",
                  "Cron job executed: feature_aggregation",
                  "Anomaly detected on CNC-BETA-102, prediction confidence 0.92",
                  "User session refreshed: operator@horizonops.com",
                  "Redis cache hit ratio: 94.2%",
                  "Memory usage approaching threshold (82%)">>

MOCK_LOGS ==
    [i \in 1..Len(MockLevels) |->
        KEntry(i, DateNow(0) - 5 * (i - 1), MockLevels[i], MockSources[i],
               MockMessages[i])]

\* const newLog = {id: Date.now().toString(), timestamp: new Date().toISOString(), ...}
NewLog(t, rl, rs, rm) ==
    KEntry(DateNow(t), DateNow(t), Pick(Levels, rl), Pick(Sources, rs), Pick(Messages, rm))

KAppendAtTail(prev, entry) ==
    SubSeq(prev \o <<entry>>, 1, Min(KLogCap, Len(prev) + 1))

\* setLogs(prev => [newLog, ...prev].slice(0, 100))
KAppend(prev, entry) == SubSeq(<<entry>> \o prev, 1, Min(KLogCap, Len(prev) + 1))

KFilters == {"all", "error"}

-----------------------------------------------------------------------------
(* LiveTelemetry (pages/LiveTelemetry.tsx).  Sensor values are in hundredths. *)

MACHINES == <<"CNC-ALPHA-921", "CNC-ALPHA-922", "CNC-BETA-101", "CNC-BETA-102",
              "MILL-GAMMA-301", "MILL-GAMMA-302", "LATHE-DELTA-401", "LATHE-DELTA-402">>

\* The machines the operator selects in the runs
SelectableMachines == {MACHINES[1], MACHINES[2]}

\* ?limit=50
HistoryLimit == 50

\* prev.slice(-49)
KeepLast == 49

\* latestReading.vibration_rms > 25
RmsUpAbove == 25

\* latestReading.temperature > 50
TempUpAbove == 50

\* latestReading.vibration_kurtosis > 4
KurtosisElevatedAbove == 4

\* A TelemetryReading; machine and seq record the request it answered
TelemetryReading(kind, m, n, ts, rms, kurtosis, temp, flag) ==
    [kind |-> kind, machine |-> m, seq |-> n, timestamp |-> ts, vibration_rms |-> rms,
     vibration_kurtosis |-> kurtosis, temperature |-> temp, anomaly_flag |-> flag]

\* useState<TelemetryReading | null>(null)
NullReading == TelemetryReading("null", "", 0, 0, 0, 0, 0, FALSE)

\* data.reading of a response without a reading
UndefinedReading == TelemetryReading("undefined", "", 0, 0, 0, 0, 0, FALSE)

\* The sensor values the service answers with: on the thresholds, above them
LProfiles ==
    { [rms |-> RmsUpAbove * 100, kurtosis |-> KurtosisElevatedAbove * 100,
       temp |-> TempUpAbove * 100, flag |-> FALSE],
      [rms |-> RmsUpAbove * 100 + 6, kurtosis |-> KurtosisElevatedAbove * 100 + 1,
       temp |-> TempUpAbove * 100 + 1, flag |-> TRUE] }

\* The reading of machine m the service returns to request n
ServerReading(m, n, p) ==
    TelemetryReading("reading", m, n, n, p.rms, p.kurtosis, p.temp, p.flag)

\* await response.json() of GET /telemetry/{machine}/latest
LatestResponses(q) ==
    {[hasReading |-> TRUE, reading |-> ServerReading(q.machine, q.id, p)] : p \in LProfiles}
        \cup {[hasReading |-> FALSE, reading |-> UndefinedReading]}

\* data.reading
ReadingOf(data) == IF data.hasReading THEN data.reading ELSE UndefinedReading

\* The i-th of n stored readings of machine m, older than every request
HistoryRecord(m, i, n) == TelemetryReading("reading", m, 0, i - n, 2130, 310, 4420, FALSE)

\* How many records the history endpoint returns
HistorySizes == {HistoryLimit, HistoryLimit + 1}

\* await response.json() of GET /telemetry/{machine}?limit=50
HistoryResponses(q) ==
    {[hasData |-> TRUE, data |-> [i \in 1..n |-> HistoryRecord(q.machine, i, n)]] :
        n \in HistorySizes}
        \cup {[hasData |-> FALSE, data |-> <<>>]}

\* data.data || []
DataOrEmpty(data) == IF data.hasData THEN data.data ELSE <<>>

\* const newPoint = {timestamp: new Date().toLocaleTimeString(), ...data.reading}
LNewPoint(q, reading, clock) ==
    IF reading.kind = "reading"
       THEN reading
       ELSE TelemetryReading("timestamp only", q.machine, q.id, clock, 0, 0, 0, FALSE)

SliceLast(prev, n) == SubSeq(prev, IF Len(prev) > n THEN Len(prev) - n + 1 ELSE 1, Len(prev))

\* setTelemetryData(prev => [...prev.slice(-49), newPoint])
AppendPoint(prev, q, reading, clock) ==
    SliceLast(prev, KeepLast) \o <<LNewPoint(q, reading, clock)>>

\* What a metric card or the kurtosis panel prints
Dashes == [text |-> "--", number |-> 0]

Number(n) == [text |-> "number", number |-> n]

\* latestReading?.vibration_rms?.toFixed(1) || '--', in tenths
RmsValue(r) == IF r.kind = "reading" THEN Number(ToFixed1(r.vibration_rms)) ELSE Dashes

\* latestReading?.temperature?.toFixed(1) || '--', in tenths
TempValue(r) == IF r.kind = "reading" THEN Number(ToFixed1(r.temperature)) ELSE Dashes

\* latestReading?.vibration_kurtosis?.toFixed(2) || '--', in hundredths
KurtosisValue(r) == IF r.kind = "reading" THEN Number(r.vibration_kurtosis) ELSE Dashes

\* value > threshold, the value in hundredths
Above(v, threshold) == v > threshold * 100

\* trend={latestReading && latestReading.vibration_rms > 25 ? 'up' : 'stable'}
RmsTrend(r) ==
    IF r.kind = "reading" /\ Above(r.vibration_rms, RmsUpAbove) THEN "up" ELSE "stable"

\* trend={latestReading && latestReading.temperature > 50 ? 'up' : 'stable'}
TempTrend(r) ==
    IF r.kind = "reading" /\ Above(r.temperature, TempUpAbove) THEN "up" ELSE "stable"

\* latestReading && latestReading.vibration_kurtosis > 4 && (... ELEVATED ...)
KurtosisElevated(r) ==
    r.kind = "reading" /\ Above(r.vibration_kurtosis, KurtosisElevatedAbove)

\* alert={latestReading?.anomaly_flag}
AnomalyAlert(r) == r.kind = "reading" /\ r.anomaly_flag

Request(n, kind, m) == [id |-> n, kind |-> kind, machine |-> m]

\* LiveTelemetry as first rendered and, if mounted, after its effect has run
LiveInit(mounted) ==
    /\ selectedMachine = MACHINES[1]
    /\ telemetryData = <<>>
    /\ latestReading = NullReading
    /\ isLoading = TRUE
    /\ lRequests = IF mounted THEN {Request(1, "history", MACHINES[1])} ELSE {}
    /\ lNext = IF mounted THEN 1 ELSE 0

-----------------------------------------------------------------------------
(* FleetNetwork (part_001).  Health scores are in tenths of a percent. *)

\* The cut points of the five bands of the fleet health score
CutOptimal == 900

CutGood == 750

CutModerate == 500

CutDegraded == 250

\* The five bands as getStatusColor lists them, from the healthiest
Bands == <<"optimal", "good", "moderate", "degraded", "critical">>

\* The band of health score h with the labels of the two best bands swapped
ClassifySwappedLabels(h) ==
    IF h > CutOptimal THEN "good"
    ELSE IF h > CutGood THEN "optimal"
    ELSE IF h > CutModerate THEN "moderate"
    ELSE IF h > CutDegraded THEN "degraded"
    ELSE "critical"

\* The band of health score h: a score on a cut point is in the more severe band
Classify(h) ==
    IF h > CutOptimal THEN "optimal"
    ELSE IF h > CutGood THEN "good"
    ELSE IF h > CutModerate THEN "moderate"
    ELSE IF h > CutDegraded THEN "degraded"
    ELSE "critical"

\* type MachineStatus, with the fields GET /health/fleet documents
MachineStatus(id, h, status) == [machine_id |-> id, health_score |-> h, status |-> status]

\* type FleetSummary
FleetSummary(kind, total, optimal, good, moderate, degraded, critical, average) ==
    [kind |-> kind, total_machines |-> total, optimal |-> optimal, good |-> good,
     moderate |-> moderate, degraded |-> degraded, critical |-> critical,
     average_health |-> average]

\* useState<FleetSummary | null>(null)
NullSummary == FleetSummary("null", 0, 0, 0, 0, 0, 0, 0)

\* data.summary of a body without a summary field
UndefinedSummary == FleetSummary("undefined", 0, 0, 0, 0, 0, 0, 0)

\* How many of the machines ms are in band b
Count(ms, b) == Cardinality({i \in 1..Len(ms) : ms[i].status = b})

RECURSIVE SumScores(_)
SumScores(ms) == IF ms = <<>> THEN 0 ELSE Head(ms).health_score + SumScores(Tail(ms))

\* The summary as a service that forgets the moderate band would compute it
ServerSummaryWithoutModerate(ms) ==
    FleetSummary("summary", Len(ms), Count(ms, "optimal"), Count(ms, "good"),
                 0, Count(ms, "degraded"), Count(ms, "critical"),
                 SumScores(ms) \div Len(ms))

\* The summary the service computes of the machines it reports
ServerSummary(ms) ==
    FleetSummary("summary", Len(ms), Count(ms, "optimal"), Count(ms, "good"),
                 Count(ms, "moderate"), Count(ms, "degraded"), Count(ms, "critical"),
                 SumScores(ms) \div Len(ms))

\* The machines of the fleet
FleetMachines == <<MACHINES[1], MACHINES[2]>>

\* The health scores the model explores: on a cut point, next to it, and in
\* the bands at both ends
FleetScores == {CutDegraded, CutModerate, CutModerate + 1, CutOptimal, CutOptimal + 50}

\* What the service reports of a machine whose health score is h
ServerMachine(id, h) == MachineStatus(id, h, Classify(h))

\* await response.json() of GET /health/fleet: the overview, or an error envelope
FleetResponses ==
    {[hasMachines |-> TRUE, hasSummary |-> TRUE,
      machines |-> <<ServerMachine(FleetMachines[1], h1), ServerMachine(FleetMachines[2], h2)>>,
      summary |-> ServerSummary(<<ServerMachine(FleetMachines[1], h1),
                                  ServerMachine(FleetMachines[2], h2)>>)] :
        h1 \in FleetScores, h2 \in FleetScores}
        \cup {[hasMachines |-> FALSE, hasSummary |-> FALSE,
               machines |-> <<>>, summary |-> UndefinedSummary]}

\* data.machines || []
MachinesOrEmpty(data) == IF data.hasMachines THEN data.machines ELSE <<>>

\* data.summary
SummaryOf(data) == IF data.hasSummary THEN data.summary ELSE UndefinedSummary

\* useState<string | null>(null)
NoMachine == "null"

\* FleetNetwork as first rendered and, if mounted, after its effect has run
FleetInit(mounted) ==
    /\ machines = <<>>
    /\ summary = NullSummary
    /\ fSelected = NoMachine
    /\ fLoading = TRUE
    /\ fRequests = IF mounted THEN {1} ELSE {}
    /\ fNext = IF mounted THEN 1 ELSE 0
    /\ fShown = 0

-----------------------------------------------------------------------------
(* Parameters (part_002).  Values are in hundredths. *)

\* const PARAMETER_SECTIONS: the numeric parameters of the sections 'alerts'
\* and 'model'
PARAMETER_SECTIONS ==
    [alerts |-> [vib_warn |-> 3000, vib_crit |-> 5000, temp_warn |-> 5500,
                 temp_crit |-> 6500, kurtosis_thresh |-> 450],
     model |-> [prediction_window |-> 7200, confidence_thresh |-> 75]]

\* parseFloat(e.target.value) of the inputs the model types
ParamInputs ==
    [alerts |-> [kurtosis_thresh |-> {400}, vib_warn |-> {2500}],
     model |-> [prediction_window |-> {4800}]]

\* Parameters as first rendered
ParamsInit ==
    /\ sections = PARAMETER_SECTIONS
    /\ hasChanges = FALSE
    /\ activeSection = "alerts"

-----------------------------------------------------------------------------
\* The pages of App
Routes == {"console", "logs", "telemetry", "security", "fleet", "parameters"}

\* What the effect of page r closes over when the page is mounted
MountClosure(r) ==
    CASE r = "console" -> "nominal"
      [] r = "telemetry" -> MACHINES[1]
      [] OTHER -> "none"

\* The intervals after page r has been mounted
Mounted(ivs, r) ==
    IF r \in {"console", "logs", "telemetry", "fleet"}
       THEN SetInterval(ivs, Interval(r, MountClosure(r)))
       ELSE ivs

\* KernelLogs as first rendered
KernelInit ==
    /\ kLogs = MOCK_LOGS
    /\ kFilter = "all"
    /\ kNow = 0

\* CommandConsole as first rendered
ConsoleInit ==
    /\ \E rv \in InitDraws, rt \in InitDraws, rp \in InitDraws :
          telemetry = InitTelemetry(rv, rt, rp)
    /\ logs = <<>>
    /\ isAiAnalyzing = FALSE
    /\ aiInsight = NULL
    /\ systemStatus = "nominal"
    /\ effectStatus = "nominal"
    /\ view = Snapshot(telemetry, "nominal", FALSE)
    /\ calls = {}
    /\ settled = NotSettled
    /\ unhandled = FALSE
    /\ now = BufCap - 1
    /\ nextCall = 0

\* The page at route r mounted, every page in its initial state
InitAt(r) ==
    /\ route = r
    /\ intervals = Mounted(<<>>, r)
    /\ ConsoleInit
    /\ KernelInit
    /\ LiveInit(r = "telemetry")
    /\ FleetInit(r = "fleet")
    /\ ParamsInit

\* <Route index element={<CommandConsole />} />
Init == InitAt("console")

\* The interval callback: setTelemetry(updater), the updater run on the current
\* buffer with the status of the callback's closure.
TickBody(ra, rv, rt, rp, id) ==
    /\ Active(Interval("console", effectStatus))
    /\ LET isAnomaly == IsAnomaly(ra)
           newPoint == NewPoint(telemetry[Len(telemetry)], now + 1, isAnomaly, rv, rt, rp)
       IN  /\ telemetry' = Slide(telemetry, newPoint)
           /\ logs' = IF Escalates(isAnomaly, effectStatus)
                          THEN AddLog(logs, NewEntry(id, now + 1, "critical",
                                        AnomalyMessage(LoggedPoint(telemetry, newPoint))))
                          ELSE logs
           /\ systemStatus' = TickStatus(isAnomaly, effectStatus, systemStatus)
    /\ now' = now + 1
    /\ UNCHANGED <<isAiAnalyzing, aiInsight, effectStatus, view, calls, settled,
                   unhandled, nextCall>>

Tick(ra, rv, rt, rp, id) ==
    /\ now < BufCap - 1 + MaxTicks
    /\ TickBody(ra, rv, rt, rp, id)

\* React renders and commits the updates made outside a click.  Passive effects
\* of the previous commit are flushed before a render starts.
Commit ==
    /\ effectStatus = view.systemStatus
    /\ view # Snapshot(telemetry, systemStatus, isAiAnalyzing)
    /\ view' = Snapshot(telemetry, systemStatus, isAiAnalyzing)
    /\ UNCHANGED <<telemetry, logs, isAiAnalyzing, aiInsight, systemStatus,
                   effectStatus, calls, settled, unhandled, now, nextCall>>

\* useEffect(..., [systemStatus]): the dependency changed, so the cleanup clears
\* the old interval and the effect installs one whose callback closes over the
\* committed systemStatus.
FlushEffects ==
    /\ effectStatus # view.systemStatus
    /\ effectStatus' = view.systemStatus
    /\ intervals' = Resubscribe(intervals, "console", effectStatus')
    /\ UNCHANGED <<telemetry, logs, isAiAnalyzing, aiInsight, systemStatus, view,
                   calls, settled, unhandled, now, nextCall>>

RecalibratedStatusUnlessAnomalous ==
    IF telemetry[Len(telemetry)].vibration >= 5000 THEN systemStatus ELSE "nominal"

\* The argument of setSystemStatus in the Recalibrate Baseline handler
RecalibratedStatus == "nominal"

\* onClick={() => setSystemStatus('nominal')}
Recalibrate ==
    /\ systemStatus' = RecalibratedStatus
    /\ view' = SyncRender(view, systemStatus', view.isAiAnalyzing)
    /\ effectStatus' = systemStatus'
    /\ intervals' = Resubscribe(intervals, "console", effectStatus')
    /\ UNCHANGED <<telemetry, logs, isAiAnalyzing, aiInsight, calls, settled,
                   unhandled, now, nextCall>>

InsightKept(prev) == prev

\* setAiInsight(null) at the start of runAiAnalysis
InsightCleared(prev) == NULL

ButtonNeverDisabled(v) == FALSE

\* disabled={isAiAnalyzing} of the Generate Forensic Brief button
ButtonDisabled(v) == v.isAiAnalyzing

\* onClick={runAiAnalysis}: the part of runAiAnalysis up to the await of fetch.
RunAiAnalysis ==
    /\ nextCall < MaxCalls
    /\ ~ButtonDisabled(view)
    /\ isAiAnalyzing' = TRUE
    /\ aiInsight' = InsightCleared(aiInsight)
    /\ calls' = calls \cup { [id |-> nextCall + 1, phase |-> "fetch",
                              body |-> RequestBody(view.latest, view.systemStatus),
                              response |-> NoResponse] }
    /\ nextCall' = nextCall + 1
    /\ view' = SyncRender(view, view.systemStatus, TRUE)
    /\ effectStatus' = view.systemStatus
    /\ intervals' = Resubscribe(intervals, "console", effectStatus')
    /\ settled' = NotSettled
    /\ UNCHANGED <<telemetry, logs, systemStatus, unhandled, now>>

FinishLoggingFailure(c, failed, reached, data) ==
    LET r == Settle(failed, IF failed THEN NULL ELSE InsightOf(data))
    IN  /\ aiInsight' = (IF r.unhandled THEN aiInsight ELSE r.aiInsight)
        /\ unhandled' = (unhandled \/ r.unhandled)
        /\ isAiAnalyzing' = FALSE
        /\ calls' = calls \ {c}
        /\ settled' = [done |-> TRUE, reached |-> reached, data |-> data]
        /\ logs' = IF failed
                      THEN AddLog(logs, NewEntry("k3j9x2m1q", now, "warning",
                                                 [text |-> "AI Uplink Failed", value |-> 0]))
                      ELSE logs
        /\ UNCHANGED <<telemetry, systemStatus, effectStatus, view, now, nextCall>>

FinishResettingStatus(c, failed, reached, data) ==
    LET r == Settle(failed, IF failed THEN NULL ELSE InsightOf(data))
    IN  /\ aiInsight' = (IF r.unhandled THEN aiInsight ELSE r.aiInsight)
        /\ unhandled' = (unhandled \/ r.unhandled)
        /\ isAiAnalyzing' = FALSE
        /\ calls' = calls \ {c}
        /\ settled' = [done |-> TRUE, reached |-> reached, data |-> data]
        /\ systemStatus' = "nominal"
        /\ UNCHANGED <<telemetry, logs, effectStatus, view, now, nextCall>>

\* The code after an await that ended the try block: catch or setAiInsight, then
\* finally { setIsAiAnalyzing(false) }.
Finish(c, failed, reached, data) ==
    LET r == Settle(failed, IF failed THEN NULL ELSE InsightOf(data))
    IN  /\ aiInsight' = (IF r.unhandled THEN aiInsight ELSE r.aiInsight)
        /\ unhandled' = (unhandled \/ r.unhandled)
        /\ isAiAnalyzing' = FALSE
        /\ calls' = calls \ {c}
        /\ settled' = [done |-> TRUE, reached |-> reached, data |-> data]
        /\ UNCHANGED <<telemetry, logs, systemStatus, effectStatus, view, now, nextCall>>

\* await fetch(...) rejects: the service could not be reached
FetchReject(c) ==
    /\ c \in calls
    /\ c.phase = "fetch"
    /\ Finish(c, TRUE, FALSE, NoData)

\* await fetch(...) resolves with a response (of any HTTP status)
FetchResolve(c, resp) ==
    /\ c \in calls
    /\ c.phase = "fetch"
    /\ calls' = (calls \ {c}) \cup { [c EXCEPT !.phase = "json", !.response = resp] }
    /\ UNCHANGED <<telemetry, logs, isAiAnalyzing, aiInsight, systemStatus,
                   effectStatus, view, settled, unhandled, now, nextCall>>

\* await response.json() settles; the rest of the try block runs
ResponseJson(c) ==
    /\ c \in calls
    /\ c.phase = "json"
    /\ IF ~c.response.isJson
          THEN Finish(c, TRUE, TRUE, NoData)
          ELSE Finish(c, InsightThrows(c.response.data), TRUE, c.response.data)

TickStep ==
    \E ra \in AnomalyDraws, rv \in VibrationDraws, rt \in TempDraws,
       rp \in PowerDraws, id \in LogIds : Tick(ra, rv, rt, rp, id)

FetchRejectStep == \E c \in calls : FetchReject(c)

FetchResolveStep == \E c \in calls, resp \in Responses : FetchResolve(c, resp)

ResponseJsonStep == \E c \in calls : ResponseJson(c)

otherPages == <<route, kernelVars, liveVars, fleetVars, paramVars>>

notConsole == <<intervals, otherPages>>

Next ==
    \/ TickStep /\ UNCHANGED notConsole
    \/ Commit /\ UNCHANGED notConsole
    \/ FlushEffects /\ UNCHANGED otherPages
    \/ Recalibrate /\ UNCHANGED otherPages
    \/ RunAiAnalysis /\ UNCHANGED otherPages
    \/ FetchRejectStep /\ UNCHANGED notConsole
    \/ FetchResolveStep /\ UNCHANGED notConsole
    \/ ResponseJsonStep /\ UNCHANGED notConsole

Spec == Init /\ [][Next]_vars

-----------------------------------------------------------------------------
(* The logs of CommandConsole and KernelLogs, run until they are full *)

\* The interval callback of KernelLogs
KTick(rl, rs, rm) ==
    /\ Active(Interval("logs", "none"))
    /\ kNow < 3 * MaxKernelTicks
    /\ kNow' = kNow + 3
    /\ kLogs' = KAppend(kLogs, NewLog(kNow', rl, rs, rm))
    /\ UNCHANGED kFilter

\* onClick={() => setLogs([])}
KClear ==
    /\ kLogs' = <<>>
    /\ UNCHANGED <<kFilter, kNow>>

\* onClick={() => setFilter(level)}
KSetFilter(level) ==
    /\ kFilter' = level
    /\ UNCHANGED <<kLogs, kNow>>

KTickStep ==
    \E rl \in (IF kNow < 3 * MaxVariedTicks THEN KLevelDraws ELSE {0}),
       rs \in KSourceDraws, rm \in KMessageDraws : KTick(rl, rs, rm)

KSetFilterStep == \E level \in KFilters : KSetFilter(level)

\* The draws of the long runs: every reading anomalous
LongAnomalyDraws == {99}

LongVibrationDraws == {20}

LongTickStep ==
    /\ now < BufCap - 1 + MaxLongTicks
    /\ \E ra \in LongAnomalyDraws, rv \in LongVibrationDraws, rt \in TempDraws,
          rp \in PowerDraws, id \in LogIds : TickBody(ra, rv, rt, rp, id)

InitLogs == \E r \in {"console", "logs"} : InitAt(r)

notKernel == <<route, intervals, consoleVars, liveVars, fleetVars, paramVars>>

NextLogs ==
    \/ route = "console" /\ LongTickStep /\ UNCHANGED notConsole
    \/ route = "console" /\ Commit /\ UNCHANGED notConsole
    \/ route = "console" /\ FlushEffects /\ UNCHANGED otherPages
    \/ route = "logs" /\ KTickStep /\ UNCHANGED notKernel
    \/ route = "logs" /\ KClear /\ UNCHANGED notKernel
    \/ route = "logs" /\ KSetFilterStep /\ UNCHANGED notKernel

SpecLogs == InitLogs /\ [][NextLogs]_vars

-----------------------------------------------------------------------------
(* LiveTelemetry *)

\* setInterval(fetchLatest, 2000) fires: fetchLatest up to its await of fetch,
\* for the machine the effect closed over
LiveTick ==
    /\ lNext < MaxRequests
    /\ \E i \in 1..Len(intervals) :
          /\ intervals[i].view = "telemetry"
          /\ lRequests' = lRequests \cup {Request(lNext + 1, "latest", intervals[i].closure)}
    /\ lNext' = lNext + 1
    /\ UNCHANGED <<selectedMachine, telemetryData, latestReading, isLoading>>

\* onChange={(e) => setSelectedMachine(e.target.value)}, the render and the
\* [selectedMachine] effect: cleanup, fetchTelemetry() up to its await, setInterval
SelectMachine(m) ==
    /\ lNext < MaxRequests
    /\ m # selectedMachine
    /\ selectedMachine' = m
    /\ intervals' = Resubscribe(intervals, "telemetry", m)
    /\ isLoading' = TRUE
    /\ lRequests' = lRequests \cup {Request(lNext + 1, "history", m)}
    /\ lNext' = lNext + 1
    /\ UNCHANGED <<telemetryData, latestReading>>

\* fetchTelemetry after its awaits: setTelemetryData(data.data || []), finally
HistoryResolve(q, data) ==
    /\ q \in lRequests
    /\ q.kind = "history"
    /\ telemetryData' = DataOrEmpty(data)
    /\ isLoading' = FALSE
    /\ lRequests' = lRequests \ {q}
    /\ UNCHANGED <<selectedMachine, latestReading, lNext>>

\* fetchTelemetry when fetch or response.json() rejects: catch, finally
HistoryReject(q) ==
    /\ q \in lRequests
    /\ q.kind = "history"
    /\ isLoading' = FALSE
    /\ lRequests' = lRequests \ {q}
    /\ UNCHANGED <<selectedMachine, telemetryData, latestReading, lNext>>

\* fetchLatest after its awaits: setLatestReading(data.reading), setTelemetryData
LatestResolve(q, data) ==
    /\ q \in lRequests
    /\ q.kind = "latest"
    /\ latestReading' = ReadingOf(data)
    /\ telemetryData' = AppendPoint(telemetryData, q, ReadingOf(data), lNext)
    /\ lRequests' = lRequests \ {q}
    /\ UNCHANGED <<selectedMachine, isLoading, lNext>>

\* fetchLatest when fetch or response.json() rejects: catch
LatestReject(q) ==
    /\ q \in lRequests
    /\ q.kind = "latest"
    /\ lRequests' = lRequests \ {q}
    /\ UNCHANGED <<selectedMachine, telemetryData, latestReading, isLoading, lNext>>

SelectMachineStep == \E m \in SelectableMachines : SelectMachine(m)

HistoryResolveStep == \E q \in lRequests : \E data \in HistoryResponses(q) : HistoryResolve(q, data)

HistoryRejectStep == \E q \in lRequests : HistoryReject(q)

LatestResolveStep == \E q \in lRequests : \E data \in LatestResponses(q) : LatestResolve(q, data)

LatestRejectStep == \E q \in lRequests : LatestReject(q)

InitLive == InitAt("telemetry")

notLive == <<route, consoleVars, kernelVars, fleetVars, paramVars>>

NextLive ==
    \/ LiveTick /\ UNCHANGED <<intervals, notLive>>
    \/ SelectMachineStep /\ UNCHANGED notLive
    \/ HistoryResolveStep /\ UNCHANGED <<intervals, notLive>>
    \/ HistoryRejectStep /\ UNCHANGED <<intervals, notLive>>
    \/ LatestResolveStep /\ UNCHANGED <<intervals, notLive>>
    \/ LatestRejectStep /\ UNCHANGED <<intervals, notLive>>

SpecLive == InitLive /\ [][NextLive]_vars

-----------------------------------------------------------------------------
(* FleetNetwork *)

\* fetchFleetHealth up to its await of fetch
FetchFleetHealth ==
    /\ fNext < MaxFleetRequests
    /\ fRequests' = fRequests \cup {fNext + 1}
    /\ fNext' = fNext + 1
    /\ UNCHANGED <<machines, summary, fSelected, fLoading, fShown>>

\* setInterval(fetchFleetHealth, 10000) fires
FleetTick ==
    /\ Active(Interval("fleet", MountClosure("fleet")))
    /\ FetchFleetHealth

\* <button onClick={fetchFleetHealth}>Refresh Fleet</button>
RefreshFleet == FetchFleetHealth

\* fetchFleetHealth after its awaits: setMachines, setSummary, finally
FleetResolve(q, data) ==
    /\ q \in fRequests
    /\ machines' = MachinesOrEmpty(data)
    /\ summary' = SummaryOf(data)
    /\ fLoading' = FALSE
    /\ fRequests' = fRequests \ {q}
    /\ fShown' = q
    /\ UNCHANGED <<fSelected, fNext>>

\* fetchFleetHealth when fetch or response.json() rejects: catch, finally
FleetReject(q) ==
    /\ q \in fRequests
    /\ fLoading' = FALSE
    /\ fRequests' = fRequests \ {q}
    /\ UNCHANGED <<machines, summary, fSelected, fNext, fShown>>

\* onClick={() => setSelectedMachine(machine.machine_id)} of a machine card
SelectCard(i) ==
    /\ i \in 1..Len(machines)
    /\ fSelected' = machines[i].machine_id
    /\ UNCHANGED <<machines, summary, fLoading, fRequests, fNext, fShown>>

FleetResolveStep == \E q \in fRequests, data \in FleetResponses : FleetResolve(q, data)

FleetRejectStep == \E q \in fRequests : FleetReject(q)

SelectCardStep == \E i \in 1..Len(machines) : SelectCard(i)

InitFleet == InitAt("fleet")

notFleet == <<route, intervals, consoleVars, kernelVars, liveVars, paramVars>>

NextFleet ==
    \/ FleetTick /\ UNCHANGED notFleet
    \/ RefreshFleet /\ UNCHANGED notFleet
    \/ FleetResolveStep /\ UNCHANGED notFleet
    \/ FleetRejectStep /\ UNCHANGED notFleet
    \/ SelectCardStep /\ UNCHANGED notFleet

SpecFleet == InitFleet /\ [][NextFleet]_vars

-----------------------------------------------------------------------------
(* Steps the properties speak about *)

\* A tick whose reading is anomalous
AnomalousTick ==
    \E ra \in AnomalyDraws, rv \in VibrationDraws, rt \in TempDraws,
       rp \in PowerDraws, id \in LogIds : IsAnomaly(ra) /\ Tick(ra, rv, rt, rp, id)

\* A runAiAnalysis invocation ran to its end
CallFinished == \E c \in calls : c \notin calls' /\ settled'.done

\* ... because fetch rejected or the response could not be turned into an insight
CallFailed ==
    CallFinished /\ (~settled'.reached \/ settled'.data.risk_level = UNDEF)

Latest == telemetry[Len(telemetry)]

Shows(insight, s) == \E i \in 1..Len(insight) : insight[i] = s

-----------------------------------------------------------------------------
(* C1: once systemStatus is 'degraded', the only step that makes it 'nominal'
   is the Recalibrate Baseline click: no tick and no step of a prediction
   request does. *)
C1_NoAutoRecovery ==
    [][(systemStatus = "degraded" /\ systemStatus' = "nominal") => Recalibrate]_vars

\* still degraded after a later non-anomalous reading and a finished request
C1_Witness ==
    /\ systemStatus = "degraded"
    /\ Latest.vibration < 5500
    /\ settled.done

(* C2: while systemStatus is not 'nominal', an anomalous tick changes neither
   systemStatus nor the log. *)
C2_NoDuplicateEscalation ==
    [][(systemStatus # "nominal" /\ AnomalousTick)
          => (logs' = logs /\ systemStatus' = systemStatus)]_vars

(* C3: an anomalous tick taken while systemStatus is 'nominal' sets it to
   'degraded' and puts exactly one entry at the head of the log, of type
   'critical', whose message carries toFixed(1) of the vibration of the point
   the same tick appended to the buffer. *)
C3_EscalationLogsTheReading ==
    [][(systemStatus = "nominal" /\ AnomalousTick)
          => /\ systemStatus' = "degraded"
             /\ Len(logs') = Min(LogCap, Len(logs) + 1)
             /\ SubSeq(logs', 2, Len(logs')) = SubSeq(logs, 1, Len(logs') - 1)
             /\ logs'[1].type = "critical"
             /\ logs'[1].message.value = ToFixed1(telemetry'[BufCap].vibration)]_vars

\* right after the first escalation, which followed a normal reading: the entry
\* carries 62.3 for the 62.25 of the point just appended
C3_Witness ==
    /\ systemStatus = "degraded"
    /\ Len(logs) = 1
    /\ now > BufCap
    /\ Latest.vibration = 6225
    /\ Latest.time = logs[1].timestamp
    /\ logs[1].message.value = 623

(* C4: the Recalibrate Baseline click leaves systemStatus 'nominal', from any
   state. *)
C4_RecalibrateResets == [][Recalibrate => systemStatus' = "nominal"]_vars

\* nominal although the latest reading is anomalous and a request is in flight
C4_Witness ==
    /\ systemStatus = "nominal"
    /\ Latest.vibration >= 5500
    /\ logs # <<>>
    /\ calls # {}

(* C5: systemStatus changes only by an anomalous tick taken while it is
   'nominal' (to 'degraded') and by Recalibrate (to 'nominal'). *)
C5_StatusFrame ==
    [][systemStatus' # systemStatus
          => \/ systemStatus = "nominal" /\ AnomalousTick /\ systemStatus' = "degraded"
             \/ Recalibrate /\ systemStatus' = "nominal"]_vars

\* ticks and a failed request have happened and the status never moved
C5_Witness ==
    /\ systemStatus = "nominal"
    /\ logs = <<>>
    /\ now > BufCap
    /\ settled.done
    /\ ~settled.reached

(* C6: a runAiAnalysis invocation whose fetch rejects, or whose response cannot
   be turned into an insight, ends with aiInsight the fixed fallback text and
   isAiAnalyzing false, and no rejection leaves it. *)
C6_FailureFallsBack ==
    [][CallFailed => (aiInsight' = Fallback /\ ~isAiAnalyzing' /\ ~unhandled')]_vars

\* a response whose body is not JSON has ended in the fallback
C6_Witness ==
    /\ settled.done
    /\ settled.reached
    /\ settled.data = NoData
    /\ aiInsight = Fallback
    /\ ~isAiAnalyzing

(* C7: the fallback text is shown only when the service could not be reached:
   after a response that is a PredictionResult or an error envelope, the
   insight shown is not the fallback text. *)
C7_FallbackOnlyWhenUnreachable ==
    (settled.done /\ settled.reached /\ settled.data.kind \in {"result", "error"})
        => aiInsight # Fallback

(* C8: after an INVALID_FEATURE error envelope the console shows the error's
   code or message as the service sent it. *)
C8_InvalidFeatureShownVerbatim ==
    (settled.done /\ settled.data.code = "INVALID_FEATURE")
        => (Shows(aiInsight, settled.data.code) \/ Shows(aiInsight, settled.data.message))

(* C9: at most one POST /predict request is in flight at any time. *)
C9_OneRequestInFlight == Cardinality(calls) <= 1

\* a second request is in flight, issued after the first one ended
C9_Witness == Cardinality(calls) = 1 /\ nextCall = 2 /\ isAiAnalyzing

(* C10: the telemetry buffer always holds exactly 40 points, the last 40
   produced, in production order; a tick drops the oldest and appends one. *)
C10_RollingBuffer ==
    /\ [](/\ Len(telemetry) = BufCap
          /\ \A i \in 1..Len(telemetry) : telemetry[i].time = now - BufCap + i)
    /\ [][telemetry' # telemetry
             => /\ SubSeq(telemetry', 1, Len(telemetry') - 1) = Tail(telemetry)
                /\ telemetry'[Len(telemetry')].time = now']_vars

\* two ticks in: the two oldest initial points are gone
C10_Witness ==
    /\ telemetry[1].time = 2
    /\ telemetry[BufCap].time = BufCap + 1
    /\ telemetry[BufCap - 1].vibration >= 5500

-----------------------------------------------------------------------------
(* The log buffers of CommandConsole and KernelLogs *)

Entries(l) == {l[i] : i \in 1..Len(l)}

\* from l to l2 nothing is removed, or l was full and only its last entry is
EvictsOldestOnly(l, l2, cap) ==
    \/ Entries(l) \subseteq Entries(l2)
    \/ /\ Len(l) = cap
       /\ Len(l2) = cap
       /\ Tail(l2) = SubSeq(l, 1, cap - 1)

\* the entries l2 keeps from l are the first ones of l, unchanged and in order
KeepsRetained(l, l2) ==
    \/ l2 = l
    \/ l2 = <<>>
    \/ /\ Len(l2) <= Len(l) + 1
       /\ Tail(l2) = SubSeq(l, 1, Len(l2) - 1)

NewestFirst(l) == \A i, j \in 1..Len(l) : i < j => l[i].timestamp > l[j].timestamp

(* C11: the CommandConsole log never holds more than 15 entries and the
   KernelLogs log never more than 100, however many entries are appended. *)
C11_LogsCapped == Len(logs) <= LogCap /\ Len(kLogs) <= KLogCap

\* KernelLogs is full and has evicted the oldest of the initial entries
C11_Witness ==
    /\ route = "logs"
    /\ Len(kLogs) = KLogCap
    /\ kNow > 3 * (KLogCap - Len(MOCK_LOGS))
    /\ kLogs[KLogCap].id < Len(MOCK_LOGS)
    /\ kLogs[1].id = DateNow(kNow)

(* C12: an entry leaves a log only when an append happens to a log at
   capacity, and then it is the oldest entry; no other action of the view
   removes entries. *)
C12_OnlyEvictionRemoves ==
    [][/\ EvictsOldestOnly(logs, logs', LogCap)
       /\ EvictsOldestOnly(kLogs, kLogs', KLogCap)]_vars

(* C13: an append puts the new entry at the head, each log is newest first
   in every reachable state, and the entries a step retains keep their
   fields and their order. *)
C13_NewestFirstImmutable ==
    /\ [](NewestFirst(logs) /\ NewestFirst(kLogs))
    /\ [][KeepsRetained(logs, logs') /\ KeepsRetained(kLogs, kLogs')]_vars

\* entries appended after a Clear, above none of the initial ones
C13_Witness ==
    /\ route = "logs"
    /\ Len(kLogs) = 2
    /\ kLogs[1].level = "error"
    /\ kLogs[2].level = "debug"
    /\ kLogs[1].id = DateNow(kNow)
    /\ kLogs[2].id = DateNow(kNow - 3)

(* C18: a prediction request in flight does not block sampling: while
   isAiAnalyzing is true the tick stays enabled, and the readings, status and
   log entries the ticks produced are unchanged by the step that ends the
   request, whether it resolves or fails. *)
C18_SamplingNotBlocked ==
    /\ []((isAiAnalyzing /\ now < BufCap - 1 + MaxTicks)
            => ENABLED (AnomalousTick /\ UNCHANGED notConsole))
    /\ [][CallFinished => /\ telemetry' = telemetry
                          /\ logs' = logs
                          /\ systemStatus' = systemStatus]_vars

\* a request built from a nominal reading is in flight; a tick since then
\* appended an anomalous reading, escalated and logged it
C18_Witness ==
    /\ isAiAnalyzing
    /\ \E c \in calls : c.body.vibration_rms < 5000 /\ c.body.vibration_kurtosis = 320
    /\ Latest.vibration >= 5000
    /\ systemStatus = "degraded"
    /\ Len(logs) = 1
    /\ logs[1].timestamp = now

(* C21: for any number of ticks every point of the buffer has its vibration
   in [20, 24) (or, anomalous, in [55, 80)), its power in [12, 12.5) (the
   initial points: [18, 22) and [11, 12)) and its temperature in one fixed
   range around the [42, 44) it starts in, here taken three times as wide. *)
C21_BoundedWalk ==
    \A i \in 1..Len(telemetry) :
        /\ telemetry[i].vibration >= 1800
        /\ telemetry[i].vibration < 8000
        /\ telemetry[i].power >= 1100
        /\ telemetry[i].power < 1250
        /\ telemetry[i].temp >= 4200 - 200
        /\ telemetry[i].temp < 4400 + 200

(* C24: the request a runAiAnalysis call sends is one, and its body has the
   vibration, temp and power of the last point of the buffer at that moment
   and kurtosis 5.2 exactly when systemStatus is 'degraded', else 3.2. *)
C24_BodyFromLatestReading ==
    [][nextCall' = nextCall + 1
         => \E c \in calls' \ calls :
              /\ calls' = calls \cup {c}
              /\ c.body.vibration_rms = Latest.vibration
              /\ c.body.temperature = Latest.temp
              /\ c.body.power_consumption = Latest.power
              /\ c.body.vibration_kurtosis
                    = (IF systemStatus = "degraded" THEN 520 ELSE 320)]_vars

(* C26: systemStatus is 'nominal' initially and 'nominal' or 'degraded' in
   every reachable state; 'critical' is never reached. *)
C26_NeverCritical ==
    /\ systemStatus = "nominal"
    /\ [](systemStatus \in {"nominal", "degraded"})

\* degraded, then a second anomalous reading and a request, still degraded
C26_Witness ==
    /\ systemStatus = "degraded"
    /\ Latest.vibration >= 5500
    /\ telemetry[Len(telemetry) - 1].vibration >= 5500
    /\ settled.done

(* C27: while isAiAnalyzing is true aiInsight is null, and the step that
   ends a request leaves isAiAnalyzing false and aiInsight non-null. *)
C27_InsightClearedThenSet ==
    /\ [](isAiAnalyzing => aiInsight = NULL)
    /\ [][CallFinished => (~isAiAnalyzing' /\ aiInsight' # NULL)]_vars

\* the second request is in flight, the insight of the first is gone
C27_Witness ==
    /\ isAiAnalyzing
    /\ aiInsight = NULL
    /\ nextCall = 2
    /\ \E c \in calls : c.id = 2 /\ c.phase = "json"

(* C28: the steps of runAiAnalysis, from the click to the end of the request,
   leave the telemetry buffer, the log and systemStatus as they are; a failed
   request appends no log entry. *)
C28_AnalysisFrame ==
    [][(RunAiAnalysis \/ FetchRejectStep \/ FetchResolveStep \/ ResponseJsonStep)
         => UNCHANGED <<telemetry, logs, systemStatus>>]_vars

\* a request has failed after an escalation: the log holds the escalation only
C28_Witness ==
    /\ settled.done
    /\ ~settled.reached
    /\ aiInsight = Fallback
    /\ Len(logs) = 1
    /\ logs[1].type = "critical"

-----------------------------------------------------------------------------
(* Navigation: <Routes> unmounts the page of the old route, which runs the
   cleanup of its effect and discards its state and whatever its pending
   requests would set, and mounts the page of the new route in its initial
   state, which runs its effect. *)

ConsoleMount ==
    /\ \E rv \in InitDraws, rt \in InitDraws, rp \in InitDraws :
          telemetry' = InitTelemetry(rv, rt, rp)
    /\ logs' = <<>>
    /\ isAiAnalyzing' = FALSE
    /\ aiInsight' = NULL
    /\ systemStatus' = "nominal"
    /\ effectStatus' = "nominal"
    /\ view' = Snapshot(telemetry', "nominal", FALSE)
    /\ calls' = {}
    /\ settled' = NotSettled
    /\ unhandled' = unhandled
    /\ now' = BufCap - 1
    /\ nextCall' = 0

KernelMount ==
    /\ kLogs' = MOCK_LOGS
    /\ kFilter' = "all"
    /\ kNow' = 0

LiveMount(mounted) ==
    /\ selectedMachine' = MACHINES[1]
    /\ telemetryData' = <<>>
    /\ latestReading' = NullReading
    /\ isLoading' = TRUE
    /\ lRequests' = IF mounted THEN {Request(1, "history", MACHINES[1])} ELSE {}
    /\ lNext' = IF mounted THEN 1 ELSE 0

FleetMount(mounted) ==
    /\ machines' = <<>>
    /\ summary' = NullSummary
    /\ fSelected' = NoMachine
    /\ fLoading' = TRUE
    /\ fRequests' = IF mounted THEN {1} ELSE {}
    /\ fNext' = IF mounted THEN 1 ELSE 0
    /\ fShown' = 0

\* Parameters is mounted with its initial state; no other page reads it
ParamsMount(mounted) ==
    IF mounted
       THEN /\ sections' = PARAMETER_SECTIONS
            /\ hasChanges' = FALSE
            /\ activeSection' = "alerts"
       ELSE UNCHANGED paramVars

Navigate(r) ==
    /\ r # route
    /\ route' = r
    /\ intervals' = Mounted(ClearInterval(intervals, route), r)
    /\ ConsoleMount
    /\ KernelMount
    /\ LiveMount(r = "telemetry")
    /\ FleetMount(r = "fleet")
    /\ ParamsMount(r = "parameters")

NavigateStep == \E r \in Routes : Navigate(r)

NextMount ==
    \/ NavigateStep
    \/ route = "console" /\ TickStep /\ UNCHANGED notConsole
    \/ route = "console" /\ Commit /\ UNCHANGED notConsole
    \/ route = "console" /\ FlushEffects /\ UNCHANGED otherPages
    \/ route = "console" /\ Recalibrate /\ UNCHANGED otherPages
    \/ route = "logs" /\ KTickStep /\ UNCHANGED notKernel
    \/ route = "telemetry" /\ LiveTick /\ UNCHANGED <<intervals, notLive>>
    \/ route = "telemetry" /\ SelectMachineStep /\ UNCHANGED notLive
    \/ route = "telemetry" /\ LatestRejectStep /\ UNCHANGED <<intervals, notLive>>
    \/ route = "fleet" /\ FleetTick /\ UNCHANGED notFleet

SpecMount == Init /\ [][NextMount]_vars

-----------------------------------------------------------------------------
(* Parameters, and LiveTelemetry after it *)

\* updateParam(sectionId, paramId, value)
UpdateParam(sectionId, paramId, value) ==
    /\ sections' = [s \in DOMAIN sections |->
                      IF s = sectionId
                         THEN [p \in DOMAIN sections[s] |->
                                 IF p = paramId THEN value ELSE sections[s][p]]
                         ELSE sections[s]]
    /\ hasChanges' = TRUE
    /\ UNCHANGED activeSection

\* handleSave, of the button that is disabled={!hasChanges}
HandleSave ==
    /\ hasChanges
    /\ hasChanges' = FALSE
    /\ UNCHANGED <<sections, activeSection>>

\* handleReset
HandleReset ==
    /\ sections' = PARAMETER_SECTIONS
    /\ hasChanges' = FALSE
    /\ UNCHANGED activeSection

\* onClick={() => setActiveSection(section.id)}
SetActiveSection(s) ==
    /\ activeSection' = s
    /\ UNCHANGED <<sections, hasChanges>>

\* onChange of an input of the section that is shown
UpdateParamStep ==
    \E p \in DOMAIN ParamInputs[activeSection] :
        \E value \in ParamInputs[activeSection][p] : UpdateParam(activeSection, p, value)

SetActiveSectionStep == \E s \in DOMAIN ParamInputs : SetActiveSection(s)

NavigateParamsStep == \E r \in {"parameters", "telemetry"} : Navigate(r)

InitParams == InitAt("parameters")

notParams == <<route, intervals, consoleVars, kernelVars, liveVars, fleetVars>>

NextParams ==
    \/ route = "parameters" /\ UpdateParamStep /\ UNCHANGED notParams
    \/ route = "parameters" /\ HandleSave /\ UNCHANGED notParams
    \/ route = "parameters" /\ HandleReset /\ UNCHANGED notParams
    \/ route = "parameters" /\ SetActiveSectionStep /\ UNCHANGED notParams
    \/ NavigateParamsStep
    \/ route = "telemetry" /\ LiveTick /\ UNCHANGED <<intervals, notLive>>
    \/ route = "telemetry" /\ LatestResolveStep /\ UNCHANGED <<intervals, notLive>>

SpecParams == InitParams /\ [][NextParams]_vars

(* C16: at every moment the intervals that are set belong to the mounted
   page and there is at most one; a step clears at most one interval; the
   request a LiveTelemetry tick starts is for the selected machine, and a
   CommandConsole tick is one of the interval set for the current effect. *)
C16_TeardownStopsTimer ==
    /\ [](/\ Len(intervals) <= 1
          /\ \A i \in 1..Len(intervals) : intervals[i].view = route)
    /\ [][/\ Len(intervals) - Len(intervals') <= 1
          /\ \A q \in lRequests' \ lRequests :
               q.kind = "latest" => q.machine = selectedMachine
          /\ now' = now + 1
               => /\ route = "console"
                  /\ intervals = <<Interval("console", effectStatus)>>
          /\ kNow' = kNow + 3 => route = "logs"]_vars

\* CommandConsole was unmounted, LiveTelemetry mounted, the machine changed,
\* and a tick of the new interval has asked for the new machine's reading
C16_Witness ==
    /\ route = "telemetry"
    /\ selectedMachine = MACHINES[2]
    /\ intervals = <<Interval("telemetry", MACHINES[2])>>
    /\ \E q \in lRequests : q.kind = "latest" /\ q.machine = MACHINES[2]

-----------------------------------------------------------------------------
(* LiveTelemetry *)

LatestInFlight == {q \in lRequests : q.kind = "latest"}

\* The response without a reading field
NoReadingResponse == [hasReading |-> FALSE, reading |-> UndefinedReading]

(* C14: no fetchLatest is started while an earlier one still awaits its
   response, and the points of telemetryData that came from fetchLatest are
   in the order in which their ticks fired. *)
C14_TicksNeverOverlap ==
    /\ Cardinality(LatestInFlight) <= 1
    /\ \A i, j \in 1..Len(telemetryData) :
          (i < j /\ telemetryData[i].seq > 0 /\ telemetryData[j].seq > 0)
              => telemetryData[i].seq < telemetryData[j].seq

(* C15: telemetryData never holds readings of two machines at once, and every
   reading a step writes to latestReading or adds to telemetryData was
   fetched for the machine that is selected. *)
C15_MachineIsolation ==
    /\ [](\A i, j \in 1..Len(telemetryData) :
              telemetryData[i].machine = telemetryData[j].machine)
    /\ [][/\ (latestReading' # latestReading /\ latestReading'.kind = "reading")
               => latestReading'.machine = selectedMachine'
          /\ \A i \in 1..Len(telemetryData') :
               telemetryData'[i] \notin Entries(telemetryData)
                   => telemetryData'[i].machine = selectedMachine']_vars

(* C17: telemetryData never holds more than 50 readings, whatever the history
   endpoint returns, and after a successful fetchLatest it is the last 49
   entries of the previous buffer followed by the new point. *)
C17_BufferBounded ==
    /\ [](Len(telemetryData) <= HistoryLimit)
    /\ [][LatestResolveStep
             => /\ Len(telemetryData') >= 1
                /\ SubSeq(telemetryData', 1, Len(telemetryData') - 1)
                      = SliceLast(telemetryData, KeepLast)]_vars

(* C19: a value exactly on a boundary is in the higher-severity band: a
   kurtosis of exactly 4.0 is shown as ELEVATED, a vibration_rms of exactly 25
   and a temperature of exactly 50 are shown with the 'up' trend. *)
C19_BoundaryIsHigherBand ==
    latestReading.kind = "reading"
        => /\ latestReading.vibration_kurtosis >= KurtosisElevatedAbove * 100
                => KurtosisElevated(latestReading)
           /\ latestReading.vibration_rms >= RmsUpAbove * 100
                => RmsTrend(latestReading) = "up"
           /\ latestReading.temperature >= TempUpAbove * 100
                => TempTrend(latestReading) = "up"

(* C20: a /latest response without a reading is no data for that tick: the
   cards print '--', no trend, ELEVATED or anomaly indicator is raised, and
   no point is added to telemetryData. *)
C20_MissingReadingIsNoData ==
    [][\A q \in lRequests :
          LatestResolve(q, NoReadingResponse)
              => /\ RmsValue(latestReading') = Dashes
                 /\ TempValue(latestReading') = Dashes
                 /\ KurtosisValue(latestReading') = Dashes
                 /\ RmsTrend(latestReading') = "stable"
                 /\ TempTrend(latestReading') = "stable"
                 /\ ~KurtosisElevated(latestReading')
                 /\ ~AnomalyAlert(latestReading')
                 /\ telemetryData' = telemetryData]_vars

(* C29: a reading appended by fetchLatest for the selected machine stays in
   telemetryData until 49 later points have been appended or the machine is
   changed: no step other than the eviction of a later append removes it, a
   late history response included. *)
C29_LivePointsKept ==
    [][\A i \in 1..Len(telemetryData) :
          (/\ telemetryData[i].seq > 0
           /\ telemetryData[i].machine = selectedMachine
           /\ selectedMachine' = selectedMachine
           /\ ~(LatestResolveStep /\ i <= Len(telemetryData) - KeepLast))
              => telemetryData[i] \in Entries(telemetryData')]_vars

-----------------------------------------------------------------------------
(* FleetNetwork *)

\* How severe a band is: its place in Bands
Severity(status) == CHOOSE i \in 1..Len(Bands) : Bands[i] = status

\* A machine with the higher score is not in the more severe band
Ordered(m1, m2) ==
    m1.health_score <= m2.health_score => Severity(m1.status) >= Severity(m2.status)

(* C22: whenever FleetNetwork holds a summary, its five band counts add up to
   its total_machines, after any polls, refreshes and failed fetches. *)
C22_BandsSumToTotal ==
    summary.kind = "summary"
        => summary.optimal + summary.good + summary.moderate + summary.degraded
               + summary.critical = summary.total_machines

\* Three requests were made and the summary shown is that of the second, with
\* machines in two different bands
C22_Witness ==
    /\ summary.kind = "summary"
    /\ fNext = 3
    /\ fShown = 2
    /\ fRequests = {}
    /\ summary.moderate = 1
    /\ summary.critical = 1

(* C23: the status of every machine the fleet view holds is one of the five
   bands and is a monotonic function of its health_score: of two machines,
   shown together or one after the other, the one with the higher score is
   never in the more severe band, and equal scores have equal statuses. *)
C23_StatusDerived ==
    /\ [](\A i, j \in 1..Len(machines) :
              /\ \E b \in 1..Len(Bands) : Bands[b] = machines[i].status
              /\ Ordered(machines[i], machines[j]))
    /\ [][\A i \in 1..Len(machines), j \in 1..Len(machines') :
              /\ Ordered(machines[i], machines'[j])
              /\ Ordered(machines'[j], machines[i])]_vars

\* A machine exactly on a cut point next to one just above it, after a refresh
C23_Witness ==
    /\ Len(machines) = 2
    /\ machines[1].health_score = CutModerate
    /\ machines[1].status = "degraded"
    /\ machines[2].health_score = CutModerate + 1
    /\ machines[2].status = "moderate"
    /\ fShown = 2

(* C30: the machines and the summary shown are those of one overview the
   service returned, a failed fetch changes neither, and the response of an
   earlier request never replaces what a later request has set. *)
C30_LatestResponseShown ==
    /\ [](fShown > 0
            => \E data \in FleetResponses :
                  /\ data.hasMachines /\ data.hasSummary
                  /\ machines = data.machines
                  /\ summary = data.summary)
    /\ [][FleetRejectStep => UNCHANGED <<machines, summary>>]_vars
    /\ [][fShown' >= fShown]_vars

-----------------------------------------------------------------------------
(* Parameters *)

(* C25: a reading that arrives is shown as ELEVATED exactly when its kurtosis
   is above the kurtosis_thresh that Parameters holds: the value updateParam
   set last, 4.5 if it was never edited. *)
C25_ThresholdsTakeEffect ==
    [][(LatestResolveStep /\ latestReading'.kind = "reading")
          => (KurtosisElevated(latestReading')
                <=> latestReading'.vibration_kurtosis > sections.alerts.kurtosis_thresh)]_vars

=============================================================================
